---- MODULE Spec2Model ----
(***************************************************************************)
(* cellbender/remove_background/data/dataset.py                            *)
(*                                                                         *)
(* The Dataset constructor (load, cell-count estimate, gene selection,     *)
(* rough prior pass, barcode selection, final prior pass) as a state       *)
(* machine, one action per stage, write_matrix_to_h5 as a second state     *)
(* machine over the output file, and save_to_output_file as a third one    *)
(* over the files it produces.                                             *)
(*                                                                         *)
(* Conventions.  Barcode and gene indices are 0-based as in the source; a  *)
(* numpy array of indices is a sequence of such indices.  The count matrix *)
(* is a sequence of rows (one per barcode), each row a sequence of counts  *)
(* (one per gene).  The transformation is the default IdentityTransform.   *)
(* A Python dict is a function whose DOMAIN is the set of keys present.    *)
(* Reals are kept exact: a probability is a pair <<num, den>>, and         *)
(* log_counts_crossover = mean(log1p(c), log1p(e)) is kept as the integer  *)
(* (1 + c) * (1 + e) = exp(2 * log_counts_crossover).                      *)
(***************************************************************************)
EXTENDS Integers, Sequences, FiniteSets, TLC

VARIABLES
    pc,                      \* position of the constructor
    fault,                   \* the exception that ended the constructor, or "none"
    input_file,              \* the count matrix held by the input file, or None
    data,                    \* self.data['matrix'], or None
    model_name,              \* self.model_name
    fraction_empties,        \* self.fraction_empties, as <<num, den>>
    low_count_threshold,     \* self.low_count_threshold
    expected_cell_count,     \* constructor argument, None or an integer
    gene_blacklist,          \* argument of _trim_dataset_for_analysis
    num_transition_barcodes, \* argument of _trim_dataset_for_analysis
    priors,                  \* self.priors
    is_trimmed,              \* self.is_trimmed
    analyzed_barcode_inds,   \* self.analyzed_barcode_inds
    analyzed_gene_inds,      \* self.analyzed_gene_inds
    empty_barcode_inds,      \* self.empty_barcode_inds
    umi_count_order,         \* local of _trim_dataset_for_analysis
    n_cells,                 \* local of _trim_dataset_for_analysis
    w_pc,                    \* position of write_matrix_to_h5
    w_args,                  \* its arguments
    w_file,                  \* the destination file
    w_caught,                \* whether its except clause caught an exception
    w_return,                \* what it returned or raised
    s_pc,                    \* position of save_to_output_file
    enc_p,                   \* its local p: None, or the cell probabilities
    filtered_inds_of_analyzed_barcodes,  \* its local of that name
    write_succeeded,         \* its local of that name
    output_file,             \* the full result file
    filtered_output_file,    \* the filtered result file
    cell_barcodes_csv,       \* the <name>_cell_barcodes.csv file
    s_return                 \* what save_to_output_file returned or raised

dvars == <<pc, fault, input_file, data, model_name, fraction_empties,
           low_count_threshold, expected_cell_count, gene_blacklist,
           num_transition_barcodes, priors, is_trimmed, analyzed_barcode_inds,
           analyzed_gene_inds, empty_barcode_inds, umi_count_order, n_cells>>

wvars == <<w_pc, w_args, w_file, w_caught, w_return>>

svars == <<s_pc, enc_p, filtered_inds_of_analyzed_barcodes, write_succeeded,
           output_file, filtered_output_file, cell_barcodes_csv, s_return>>

vars == <<dvars, wvars, svars>>

\* Python's None, for the matrix and for an optional integer argument; an
\* integer argument n that is given is <<n>>
NoData == <<>>
NoneInt == <<>>
Some(n) == <<n>>

\* d[k] = v on a dict
Put(d, k, v) == [x \in DOMAIN d \cup {k} |-> IF x = k THEN v ELSE d[x]]

----------------------------------------------------------------------------
(* Bounds of the model.                                                    *)

\* number of barcodes (rows) of an enumerated input matrix
NumBarcodes == 3
\* largest expected_cell_count enumerated
MaxCells == 3
\* largest num_transition_barcodes enumerated (besides the default)
MaxTransition == 2

\* the low_count_threshold values enumerated
LowCountThresholds == {0, 2}

\* the fraction_empties values enumerated, as <<numerator, denominator>>
FractionEmpties == { <<0, 1>>, <<1, 2>>, <<1, 1>> }

\* the rows an enumerated input matrix is built from: counts of gene 0, gene 1
Rows == { <<0, 0>>, <<0, 1>>, <<3, 0>>, <<16, 1>> }

\* num_transition_barcodes=None is replaced by this default
DefaultTransitionBarcodes == 7000

\* the default low_count_threshold of the constructor
DefaultLowCountThreshold == 30

\* a matrix at the scale of real data: raw totals [1000, 900, 50, 40, 5]
ScenarioMatrix == << <<1000, 0>>, <<900, 0>>, <<50, 0>>, <<40, 0>>, <<5, 0>> >>

----------------------------------------------------------------------------
(* numpy / Python helpers.                                                 *)

Min(a, b) == IF a <= b THEN a ELSE b
Max(a, b) == IF a >= b THEN a ELSE b

RECURSIVE SumSeq(_)
SumSeq(s) == IF s = <<>> THEN 0 ELSE Head(s) + SumSeq(Tail(s))

\* matrix.shape[0], matrix.shape[1]
Shape0(m) == Len(m)
Shape1(m) == IF Len(m) = 0 THEN 0 ELSE Len(m[1])

\* np.arange(start, stop) as a sequence
Arange(start, stop) ==
    IF stop <= start THEN <<>> ELSE [i \in 1..(stop - start) |-> start + i - 1]

\* Python's s[start:stop] on a sequence, negative bounds included
PySlice(s, start, stop) ==
    LET len == Len(s)
        norm(i) == IF i < 0 THEN Max(i + len, 0) ELSE Min(i, len)
        a == norm(start)
        b == norm(stop)
    IN  IF b <= a THEN <<>> ELSE [i \in 1..(b - a) |-> s[a + i]]

\* whether numpy raises IndexError for s[inds]
FancyIndexError(s, inds) ==
    \E i \in 1..Len(inds) : inds[i] >= Len(s) \/ inds[i] < -Len(s)

\* numpy's s[inds] for an integer index array
FancyIndex(s, inds) ==
    [i \in 1..Len(inds) |->
        IF inds[i] >= 0 THEN s[inds[i] + 1] ELSE s[inds[i] + Len(s) + 1]]

\* the elements of a sequence
Range(s) == { s[i] : i \in 1..Len(s) }

\* a set of integers as an ascending sequence (the order np.where returns)
RECURSIVE AscSeq(_)
AscSeq(S) ==
    IF S = {} THEN <<>>
    ELSE LET m == CHOOSE x \in S : \A y \in S : x <= y
         IN  <<m>> \o AscSeq(S \ {m})

\* a[mask]: the entries of a at the 1-based positions in Keep, in order
Masked(a, Keep) == LET ix == AscSeq(Keep) IN [i \in 1..Len(ix) |-> a[ix[i]]]

\* the values of a sequence in descending order (np.sort(...)[::-1])
SortDesc(s) ==
    LET place == [k \in 1..Len(s) |->
                    1 + Cardinality({ j \in 1..Len(s) :
                                        s[j] > s[k] \/ (s[j] = s[k] /\ j < k) })]
    IN  [i \in 1..Len(s) |-> s[CHOOSE k \in 1..Len(s) : place[k] = i]]

\* largest r with r * r <= n
Isqrt(n) == CHOOSE r \in 0..n : r * r <= n /\ (r + 1) * (r + 1) > n

----------------------------------------------------------------------------
(* Floating-point steps of get_d_priors_from_dataset, as integer tables.   *)

\* RoundLogThreshold[k] is the least count c with round(10 * log1p(c)) >= k
RoundLogThreshold ==
    << 1, 1, 1, 1, 1, 1, 1, 2, 2, 2, 2, 3, 3, 3, 4, 4, 5, 5, 6, 7, 7, 8, 9,
       10, 11, 12, 14, 15, 17, 19, 21, 23, 25, 28, 31, 34, 38, 42, 46, 51, 57,
       63, 70, 77, 85, 94, 104, 115, 127, 141, 156, 172, 190, 210, 232, 257,
       284, 314, 347, 383, 424, 468, 518, 572, 632, 699, 772, 854, 943, 1043,
       1152 >>

\* ExpM1Floor[k] = int(expm1(k / 10))
ExpM1Floor ==
    << 0, 0, 0, 0, 0, 0, 1, 1, 1, 1, 2, 2, 2, 3, 3, 3, 4, 5, 5, 6, 7, 8, 8,
       10, 11, 12, 13, 15, 17, 19, 21, 23, 26, 28, 32, 35, 39, 43, 48, 53, 59,
       65, 72, 80, 89, 98, 108, 120, 133, 147, 163, 180, 199, 220, 243, 269,
       297, 329, 364, 402, 444, 491, 543, 600, 664, 734, 811, 896, 991, 1095,
       1210 >>

\* np.round(np.log1p(c), decimals=1), in tenths (counts below 1152)
Log1pRound10(c) ==
    Cardinality({ k \in 1..Len(RoundLogThreshold) : RoundLogThreshold[k] <= c })

\* int(np.expm1(k / 10))
ExpM1Int(k) == IF k = 0 THEN 0 ELSE ExpM1Floor[k]

\* scipy.stats.mode of a non-empty sequence: the smallest most frequent value
Mode(s) ==
    LET freq(v) == Cardinality({ i \in 1..Len(s) : s[i] = v })
        best == { v \in Range(s) : \A w \in Range(s) : freq(v) >= freq(w) }
    IN  CHOOSE v \in best : \A w \in best : v <= w

\* int(np.median(s)) of a non-empty sequence of counts
MedianInt(s) ==
    LET d == SortDesc(s)
        n == Len(d)
    IN  IF n % 2 = 1 THEN d[(n + 1) \div 2]
        ELSE (d[n \div 2] + d[n \div 2 + 1]) \div 2

\* the values int(np.expm1(np.median(np.log1p(s)))) can take for a non-empty
\* s: floor(sqrt((1 + a) * (1 + b))) - 1 for the middle values a, b; where
\* the square root is an integer r the floating-point result lies within
\* rounding of r - 1, and int() truncates it to r - 1 or to r - 2
MedianLogInts(s) ==
    LET d == SortDesc(s)
        n == Len(d)
        a == IF n % 2 = 1 THEN d[(n + 1) \div 2] ELSE d[n \div 2]
        b == IF n % 2 = 1 THEN d[(n + 1) \div 2] ELSE d[n \div 2 + 1]
        P == (1 + a) * (1 + b)
        r == Isqrt(P)
    IN  IF r * r = P /\ r >= 2 THEN {r - 2, r - 1} ELSE {r - 1}

----------------------------------------------------------------------------
(* Pure steps of the constructor.                                          *)

\* np.array(matrix.sum(axis=1)).squeeze(): total count of every barcode
RowSums(m) == [b \in 1..Shape0(m) |-> SumSeq(m[b])]

\* np.array(matrix.sum(axis=0)).squeeze(): total count of every gene
ColSums(m) == [g \in 1..Shape1(m) |-> SumSeq([b \in 1..Shape0(m) |-> m[b][g]])]

\* matrix[:, gene_inds].sum(axis=1): per-barcode total over the genes gene_inds
RowSumsOver(m, gene_inds) ==
    [b \in 1..Shape0(m) |->
        SumSeq([k \in 1..Len(gene_inds) |-> m[b][gene_inds[k] + 1]])]

\* ArgsortDescending without the reversal [::-1]
ArgsortAscending(counts) ==
    LET n == Len(counts)
    IN  { o \in [1..n -> 0..(n - 1)] :
            /\ \A i, j \in 1..n : i # j => o[i] # o[j]
            /\ \A i \in 1..(n - 1) : counts[o[i] + 1] <= counts[o[i + 1] + 1] }

\* the results np.argsort(counts)[::-1] can have: every ordering of the
\* barcode indices with non-increasing counts.  argsort's default sort is not
\* stable, so the order among equal counts is not determined by the source.
ArgsortDescending(counts) ==
    LET n == Len(counts)
    IN  { o \in [1..n -> 0..(n - 1)] :
            /\ \A i, j \in 1..n : i # j => o[i] # o[j]
            /\ \A i \in 1..(n - 1) : counts[o[i] + 1] >= counts[o[i + 1] + 1] }

\* SelectGenes without the blacklist filter
SelectGenes_KeepBlacklisted(m, blacklist) ==
    LET gene_counts_per_barcode == ColSums(m)
    IN  AscSeq({ g \in 0..(Shape1(m) - 1) : gene_counts_per_barcode[g + 1] > 0 })

\* lines 160-169: genes with a positive total, ascending, minus the blacklist
SelectGenes(m, blacklist) ==
    LET gene_counts_per_barcode == ColSums(m)
        nonzero == AscSeq({ g \in 0..(Shape1(m) - 1) :
                              gene_counts_per_barcode[g + 1] > 0 })
    IN  IF Cardinality(blacklist) > 0
        THEN Masked(nonzero, { i \in 1..Len(nonzero) : nonzero[i] \notin blacklist })
        ELSE nonzero

\* ClampCells without the clamp
ClampCells_Unclamped(prior_n_cells, umi_counts) == prior_n_cells

\* lines 153-154: expected cells clamped to the barcodes with nonzero counts
ClampCells(prior_n_cells, umi_counts) ==
    Min(prior_n_cells,
        Cardinality({ b \in 1..Len(umi_counts) : umi_counts[b] > 0 }))

\* EstimateCellCount taking the cutoff from the largest total
EstimateCellCount_FromMaximum(m, model) ==
    IF model = "simple" THEN Shape0(m)
    ELSE LET counts == RowSums(m)
             p == SortDesc(counts)[1]
         IN  Cardinality({ b \in 1..Len(counts) : 10 * counts[b] > 9 * p })

\* estimate_cell_count_from_dataset, lines 803-822
EstimateCellCount(m, model) ==
    IF model = "simple" THEN Shape0(m)
    ELSE LET counts == RowSums(m)
             sorted == SortDesc(counts)
             ninety_ninth_percentile_ind == Len(counts) \div 100
             p == sorted[ninety_ninth_percentile_ind + 1]
         IN  Cardinality({ b \in 1..Len(counts) : 10 * counts[b] > 9 * p })

\* SimplePriors with empty_counts taken from the smallest of the top counts
SimplePriors_EmptyFromCounts(transformed_counts, prior_n_cells) ==
    LET top == PySlice(SortDesc(transformed_counts), 0, prior_n_cells)
    IN  IF top = <<>> THEN {} ELSE { <<MedianInt(top), top[Len(top)]>> }

\* get_d_priors_from_dataset, simple model (lines 742-753): the set of
\* results <<cell_counts, empty_counts>>; empty when int(nan) raises
SimplePriors(transformed_counts, prior_n_cells) ==
    LET top == PySlice(SortDesc(transformed_counts), 0, prior_n_cells)
    IN  IF top = <<>> THEN {} ELSE { <<MedianInt(top), 0>> }

\* lines 764-766: empty_counts; -1 stands for the ValueError raised when no
\* barcode has counts > cut
EmptyCounts(transformed_counts, counts, cut) ==
    LET above == { b \in 1..Len(counts) : counts[b] > cut }
        logs == Masked([b \in 1..Len(counts) |-> Log1pRound10(transformed_counts[b])],
                       above)
    IN  IF above = {} THEN -1 ELSE ExpM1Int(Mode(logs))

\* get_d_priors_from_dataset, models with empty droplets (lines 756-775): the
\* set of results <<cell_counts, empty_counts>>; empty when the pass raises
FullPriors(transformed_counts, counts, cut) ==
    LET empty_counts == EmptyCounts(transformed_counts, counts, cut)
        big == Masked(transformed_counts,
                      { b \in 1..Len(counts) :
                          transformed_counts[b] > 5 * empty_counts })
    IN  IF empty_counts < 0 \/ big = <<>> THEN {}
        ELSE { <<c, empty_counts>> : c \in MedianLogInts(big) }

\* lines 194-196: the effective low UMI count cutoff
EffectiveCutoff(low_UMI_count_cutoff, empty_counts) ==
    Max(low_UMI_count_cutoff, (empty_counts * 8) \div 10)

\* lines 201-202
NumAboveCutoff(umi_counts, cutoff) ==
    Cardinality({ b \in 1..Len(umi_counts) : umi_counts[b] > cutoff })

\* TransitionCount without the cap at the barcodes above the cutoff
TransitionCount_Uncapped(ntb, num_above, cell_size) == Max(0, ntb)

\* lines 205-207: the number of transition barcodes
TransitionCount(ntb, num_above, cell_size) == Max(0, Min(ntb, num_above - cell_size))

\* AnalyzedBarcodes without the transition barcodes
AnalyzedBarcodes_CellsOnly(order, nc, num) == PySlice(order, 0, nc)

\* AnalyzedBarcodes without the cell barcodes
AnalyzedBarcodes_TransitionOnly(order, nc, num) == PySlice(order, nc, nc + num)

\* lines 190, 208-214: cell barcodes followed by transition barcodes
AnalyzedBarcodes(order, nc, num) ==
    PySlice(order, 0, nc) \o PySlice(order, nc, nc + num)

\* EmptyBarcodes starting right after the cell barcodes
EmptyBarcodes_FromCells(order, nc, num, ntb, num_above) ==
    IF num < ntb THEN <<>>
    ELSE FancyIndex(order, Arange(nc, num_above))

\* EmptyBarcodes running to the end of the ranking
EmptyBarcodes_ToEnd(order, nc, num, ntb, num_above) ==
    IF num < ntb THEN <<>>
    ELSE FancyIndex(order, Arange(nc + num, Len(order)))

\* lines 217-237: the empty droplet barcodes
EmptyBarcodes(order, nc, num, ntb, num_above) ==
    IF num < ntb THEN <<>>
    ELSE FancyIndex(order, Arange(nc + num, num_above))

\* estimate_chi_from_dataset, lines 846-877: per analyzed gene, the counts
\* summed over the analyzed barcodes whose log total is below the crossover
\* (chi_ambient) and over all barcodes (chi_bar), before the floor eps is
\* added and the vector is normalised to sum 1.  crossover2 is
\* exp(2 * log_counts_crossover), so log(t) < log_counts_crossover is
\* t * t < crossover2
EstimateChi(m, barcode_inds, gene_inds, crossover2) ==
    LET total(b) == SumSeq([k \in 1..Len(gene_inds) |-> m[b + 1][gene_inds[k] + 1]])
        empty_barcodes == { i \in 1..Len(barcode_inds) :
                              total(barcode_inds[i]) * total(barcode_inds[i])
                                  < crossover2 }
        chi_ambient == [k \in 1..Len(gene_inds) |->
                          SumSeq([j \in 1..Cardinality(empty_barcodes) |->
                              m[Masked(barcode_inds, empty_barcodes)[j] + 1]
                               [gene_inds[k] + 1]])]
        chi_bar == [k \in 1..Len(gene_inds) |->
                      SumSeq([b \in 1..Shape0(m) |-> m[b][gene_inds[k] + 1]])]
    IN  <<chi_ambient, chi_bar>>

----------------------------------------------------------------------------
(* The constructor, Dataset.__init__, stage by stage.                      *)

\* the count matrices the input file can hold
Matrices == [1..NumBarcodes -> Rows]

ModelNames == {"simple", "full"}

CellCountArgs == {NoneInt} \cup { Some(n) : n \in 0..MaxCells }

TransitionArgs == {NoneInt} \cup { Some(n) : n \in (-1)..MaxTransition }

\* lines 63-74: the fields as the constructor sets them, before _load_data
InitFields ==
    /\ pc = "start"
    /\ fault = "none"
    /\ data = NoData
    /\ priors = [n_cells |-> expected_cell_count]
    /\ is_trimmed = FALSE
    /\ analyzed_barcode_inds = <<>>
    /\ analyzed_gene_inds = <<>>
    /\ empty_barcode_inds = <<>>
    /\ gene_blacklist = {}
    /\ num_transition_barcodes = 0
    /\ umi_count_order = <<>>
    /\ n_cells = 0

InitDataset ==
    /\ \/ /\ input_file \in Matrices \cup {NoData}
          /\ model_name \in ModelNames
          /\ expected_cell_count \in CellCountArgs
          /\ low_count_threshold \in LowCountThresholds
          /\ fraction_empties \in FractionEmpties
       \/ /\ input_file = ScenarioMatrix
          /\ model_name = "full"
          /\ expected_cell_count \in {Some(2), Some(5)}
          /\ low_count_threshold = DefaultLowCountThreshold
          /\ fraction_empties \in FractionEmpties
    /\ InitFields

\* _load_data, lines 76-81
LoadData ==
    /\ UNCHANGED <<wvars, svars>>
    /\ pc = "start"
    /\ data' = input_file
    /\ pc' = IF input_file = NoData THEN "done" ELSE "loaded"
    /\ UNCHANGED <<fault, input_file, model_name, fraction_empties,
                   low_count_threshold, expected_cell_count, gene_blacklist,
                   num_transition_barcodes, priors, is_trimmed,
                   analyzed_barcode_inds, analyzed_gene_inds,
                   empty_barcode_inds, umi_count_order, n_cells>>

\* lines 83-87: the number of real cells, given or estimated
EstimateNCells ==
    /\ UNCHANGED <<wvars, svars>>
    /\ pc = "loaded"
    /\ priors' = Put(priors, "n_cells",
                     IF expected_cell_count # NoneInt THEN expected_cell_count[1]
                     ELSE EstimateCellCount(data, model_name))
    /\ pc' = "n_cells"
    /\ UNCHANGED <<fault, input_file, data, model_name, fraction_empties,
                   low_count_threshold, expected_cell_count, gene_blacklist,
                   num_transition_barcodes, is_trimmed, analyzed_barcode_inds,
                   analyzed_gene_inds, empty_barcode_inds, umi_count_order,
                   n_cells>>

\* _trim_dataset_for_analysis, lines 141-172: barcode order, defaults, the
\* clamp of n_cells, and the choice of genes
TrimGenes ==
    /\ UNCHANGED <<wvars, svars>>
    /\ pc = "n_cells"
    /\ \E blacklist \in SUBSET (0..(Shape1(data) - 1)) :
       \E order \in ArgsortDescending(RowSums(data)) :
          /\ gene_blacklist' = blacklist
          /\ umi_count_order' = order
          /\ analyzed_barcode_inds' = Arange(0, Shape0(data))
          /\ n_cells' = ClampCells(priors["n_cells"], RowSums(data))
          /\ analyzed_gene_inds' = SelectGenes(data, blacklist)
    /\ pc' = "genes"
    /\ UNCHANGED <<fault, input_file, data, model_name, fraction_empties,
                   low_count_threshold, expected_cell_count,
                   num_transition_barcodes, priors, is_trimmed,
                   empty_barcode_inds>>

\* DPriors taking the counts over all genes
DPriors_AllGenes ==
    LET counts == RowSums(data)
        transformed_counts == counts
    IN  IF model_name = "simple"
        THEN SimplePriors(transformed_counts, priors["n_cells"])
        ELSE FullPriors(transformed_counts, counts, low_count_threshold)

\* get_d_priors_from_dataset, lines 710-779, as called at line 176: the
\* results <<cell_counts, empty_counts>>
DPriors ==
    LET counts == RowSumsOver(data, analyzed_gene_inds)
        transformed_counts == counts
    IN  IF model_name = "simple"
        THEN SimplePriors(transformed_counts, priors["n_cells"])
        ELSE FullPriors(transformed_counts, counts, low_count_threshold)

\* _trim_dataset_for_analysis, lines 174-176: the rough prior pass; a
\* ValueError raised in it leaves the constructor
TrimRoughPriors ==
    /\ UNCHANGED <<wvars, svars>>
    /\ pc = "genes"
    /\ IF DPriors = {}
       THEN /\ pc' = "failed"
            /\ fault' = "ValueError"
            /\ UNCHANGED priors
       ELSE /\ \E r \in DPriors :
                 priors' = Put(Put(priors, "cell_counts", r[1]),
                               "empty_counts", r[2])
            /\ pc' = "rough"
            /\ UNCHANGED fault
    /\ UNCHANGED <<input_file, data, model_name, fraction_empties,
                   low_count_threshold, expected_cell_count, gene_blacklist,
                   num_transition_barcodes, is_trimmed, analyzed_barcode_inds,
                   analyzed_gene_inds, empty_barcode_inds, umi_count_order,
                   n_cells>>

\* lines 89-96 and _trim_dataset_for_analysis, lines 178-246: the choice of
\* barcodes
TrimBarcodes ==
    /\ UNCHANGED <<wvars, svars>>
    /\ pc = "rough"
    /\ \E arg \in TransitionArgs :
          LET ntb == IF arg = NoneInt THEN DefaultTransitionBarcodes ELSE arg[1]
              umi_counts == RowSums(data)
              cell_barcodes == PySlice(umi_count_order, 0, n_cells)
              cutoff == EffectiveCutoff(low_count_threshold, priors["empty_counts"])
              num_barcodes_above_umi_cutoff == NumAboveCutoff(umi_counts, cutoff)
              num == TransitionCount(ntb, num_barcodes_above_umi_cutoff,
                                     Len(cell_barcodes))
              inds == Arange(n_cells + num, num_barcodes_above_umi_cutoff)
          IN  /\ num_transition_barcodes' = ntb
              /\ IF model_name = "simple"
                 THEN /\ analyzed_barcode_inds' = cell_barcodes
                      /\ UNCHANGED empty_barcode_inds
                 ELSE /\ analyzed_barcode_inds' =
                             AnalyzedBarcodes(umi_count_order, n_cells, num)
                      /\ IF num >= ntb /\ FancyIndexError(umi_count_order, inds)
                         THEN UNCHANGED empty_barcode_inds
                         ELSE empty_barcode_inds' =
                                 EmptyBarcodes(umi_count_order, n_cells, num, ntb,
                                               num_barcodes_above_umi_cutoff)
    /\ is_trimmed' = TRUE
    /\ pc' = "trimmed"
    /\ UNCHANGED <<fault, input_file, data, model_name, fraction_empties,
                   low_count_threshold, expected_cell_count, gene_blacklist,
                   priors, analyzed_gene_inds, umi_count_order, n_cells>>

\* lines 267-268: cell_prob as <<numerator, denominator>>
CellProb(frac, prior_n_cells, size) ==
    <<(frac[2] - frac[1]) * prior_n_cells, frac[2] * size>>

\* CellProbFault without the upper assertion
CellProbFault_NoUpperBound(cell_prob) ==
    IF ~(cell_prob[1] > 0) THEN "AssertionError"
    ELSE IF cell_prob[2] - cell_prob[1] = 0 THEN "ZeroDivisionError"
    ELSE "none"

\* lines 271-280: the exception these lines raise for cell_prob, or "none"
CellProbFault(cell_prob) ==
    IF ~(cell_prob[1] > 0) THEN "AssertionError"
    ELSE IF ~(cell_prob[1] <= cell_prob[2]) THEN "AssertionError"
    ELSE IF cell_prob[2] - cell_prob[1] = 0 THEN "ZeroDivisionError"
    ELSE "none"

\* _estimate_priors, lines 248-284
EstimatePriors ==
    /\ UNCHANGED <<wvars, svars>>
    /\ pc = "trimmed"
    /\ LET crossover2 == (1 + priors["cell_counts"]) * (1 + priors["empty_counts"])
           d_std == IF model_name # "simple"
                    THEN [kind |-> "log_ratio_over_10",
                          num |-> 1 + priors["cell_counts"],
                          den |-> 1 + priors["empty_counts"]]
                    ELSE [kind |-> "ratio", num |-> 1, den |-> 5]
           p1 == Put(Put(priors, "log_counts_crossover", crossover2),
                     "d_std", d_std)
           size == Len(analyzed_barcode_inds)
           cell_prob == CellProb(fraction_empties, priors["n_cells"], size)
           p2 == Put(p1, "cell_prob", cell_prob)
           chi == EstimateChi(data, analyzed_barcode_inds, analyzed_gene_inds,
                              crossover2)
       IN  IF model_name = "simple"
           THEN /\ priors' = p1
                /\ pc' = "done"
                /\ UNCHANGED fault
           ELSE IF size = 0
           THEN /\ priors' = p1
                /\ pc' = "failed"
                /\ fault' = "ZeroDivisionError"
           ELSE IF CellProbFault(cell_prob) # "none"
           THEN /\ priors' = p2
                /\ pc' = "failed"
                /\ fault' = CellProbFault(cell_prob)
           ELSE /\ priors' = Put(Put(Put(p2, "cell_logit",
                                         <<cell_prob[1], cell_prob[2] - cell_prob[1]>>),
                                     "chi_ambient", chi[1]),
                                 "chi_bar", chi[2])
                /\ pc' = "done"
                /\ UNCHANGED fault
    /\ UNCHANGED <<input_file, data, model_name, fraction_empties,
                   low_count_threshold, expected_cell_count, gene_blacklist,
                   num_transition_barcodes, is_trimmed, analyzed_barcode_inds,
                   analyzed_gene_inds, empty_barcode_inds, umi_count_order,
                   n_cells>>

----------------------------------------------------------------------------
(* write_matrix_to_h5, lines 606-707.                                      *)

\* largest dimension and largest name count enumerated for a write
MaxDim == 2

\* the optional arguments of write_matrix_to_h5 and the array each one writes
OptionalArgs ==
    << <<"cell_barcode_inds", "barcode_indices_for_latents">>,
       <<"ambient_expression", "ambient_expression">>,
       <<"z", "latent_gene_encoding">>,
       <<"d", "latent_scale">>,
       <<"p", "latent_cell_probability">>,
       <<"rho", "contamination_fraction_params">>,
       <<"phi", "overdispersion_params">>,
       <<"loss", "training_elbo_per_epoch">> >>

OptionalNames == { OptionalArgs[i][1] : i \in 1..Len(OptionalArgs) }

\* lines 664-696: the nodes the call creates, in order
WritePlan(args) ==
    <<"background_removed", "gene_names", "genes", "barcodes", "data",
      "indices", "indptr", "shape">>
    \o LET given == { i \in 1..Len(OptionalArgs) :
                        OptionalArgs[i][1] \in args.given }
       IN  [k \in 1..Cardinality(given) |-> Masked(OptionalArgs, given)[k][2]]

\* Preconditions without the assertion on the number of barcodes
Preconditions_NoBarcodeCheck(args) ==
    /\ args.is_csc
    /\ args.gene_names_size = args.shape[2]

\* lines 643-653: the three assertions
Preconditions(args) ==
    /\ args.is_csc
    /\ args.gene_names_size = args.shape[2]
    /\ args.barcodes_size = args.shape[1]

\* the destination before the call: absent, or an older output
OldFile == [exists |-> TRUE, is_open |-> FALSE, nodes |-> <<"old">>]
NoFile == [exists |-> FALSE, is_open |-> FALSE, nodes |-> <<>>]

WriteArgs ==
    [is_csc : BOOLEAN,
     gene_names_size : 1..MaxDim,
     barcodes_size : 1..MaxDim,
     shape : (1..MaxDim) \X (1..MaxDim),
     given : SUBSET OptionalNames]

\* no call of write_matrix_to_h5 is in progress
WriterIdle ==
    /\ w_pc = "idle"
    /\ w_args = [is_csc |-> TRUE, gene_names_size |-> 1, barcodes_size |-> 1,
                 shape |-> <<1, 1>>, given |-> {}]
    /\ w_file = NoFile
    /\ w_caught = FALSE
    /\ w_return = "none"

\* a call of write_matrix_to_h5 with its arguments bound
WriteCall ==
    /\ w_pc = "call"
    /\ w_args \in WriteArgs
    /\ w_file \in {NoFile, OldFile}
    /\ w_caught = FALSE
    /\ w_return = "none"

\* lines 643-656: the assertions, outside the try block
WriteCheck ==
    /\ w_pc = "call"
    /\ IF Preconditions(w_args)
       THEN /\ w_pc' = "try"
            /\ UNCHANGED w_return
       ELSE /\ w_pc' = "raised"
            /\ w_return' = "AssertionError"
    /\ UNCHANGED <<w_args, w_file, w_caught, dvars, svars>>

\* lines 660-661: tables.open_file(output_file, "w") creates or truncates
WriteOpen ==
    /\ w_pc = "try"
    /\ w_file' = [exists |-> TRUE, is_open |-> TRUE, nodes |-> <<>>]
    /\ w_pc' = "with"
    /\ UNCHANGED <<w_args, w_caught, w_return, dvars, svars>>

\* lines 664-696: the next create_group / create_array
WriteNode ==
    /\ w_pc = "with"
    /\ Len(w_file.nodes) < Len(WritePlan(w_args))
    /\ w_file' = [w_file EXCEPT
                    !.nodes = Append(@, WritePlan(w_args)[Len(@) + 1])]
    /\ UNCHANGED <<w_pc, w_args, w_caught, w_return, dvars, svars>>

\* leaving the with block after the last array closes the file; lines 698-700
WriteClose ==
    /\ w_pc = "with"
    /\ Len(w_file.nodes) = Len(WritePlan(w_args))
    /\ w_file' = [w_file EXCEPT !.is_open = FALSE]
    /\ w_pc' = "returned"
    /\ w_return' = "True"
    /\ UNCHANGED <<w_args, w_caught, dvars, svars>>

\* Handler re-raising the exception
Handler_Reraise == [to |-> "raised", value |-> "IOError"]

\* lines 702-707: what the except clause does with an exception
Handler == [to |-> "returned", value |-> "False"]

\* an exception raised by open_file: the file is left as it was
WriteOpenFault ==
    /\ w_pc = "try"
    /\ w_caught' = TRUE
    /\ w_pc' = Handler.to
    /\ w_return' = Handler.value
    /\ UNCHANGED <<w_args, w_file, dvars, svars>>

\* an exception raised inside the with block, by a create_* call or by the
\* closing flush: the with statement closes the file, the handler runs
WriteFault ==
    /\ w_pc = "with"
    /\ w_caught' = TRUE
    /\ w_file' = [w_file EXCEPT !.is_open = FALSE]
    /\ w_pc' = Handler.to
    /\ w_return' = Handler.value
    /\ UNCHANGED <<w_args, dvars, svars>>

NextWrite ==
    \/ WriteCheck
    \/ WriteOpen
    \/ WriteNode
    \/ WriteClose
    \/ WriteOpenFault
    \/ WriteFault

----------------------------------------------------------------------------
(* Dataset.save_to_output_file, lines 344-526.                             *)
(*                                                                         *)
(* A cell probability is a record: is_nan, and v, the value in tenths.     *)
(* The local p is <<>> for None and <<probabilities>> for an array.  The   *)
(* rows of z and of d are named by the position (0-based) of the analyzed  *)
(* barcode they encode, the rows of a count matrix by their barcode.  A    *)
(* file is a record: written is "no" (never written), "complete" or        *)
(* "incomplete" (the write failed), the other fields are its arrays.       *)

\* the cell probabilities enumerated: NaN, 0.0, 0.5 and 0.9
Probabilities ==
    { [is_nan |-> TRUE, v |-> 0], [is_nan |-> FALSE, v |-> 0],
      [is_nan |-> FALSE, v |-> 5], [is_nan |-> FALSE, v |-> 9] }

\* get_encodings, line 375-378: p is None for the simple model and holds one
\* probability per analyzed barcode otherwise
Encodings ==
    IF model_name = "simple" THEN { <<>> }
    ELSE { <<q>> : q \in [1..Len(analyzed_barcode_inds) -> Probabilities] }

\* z and d of get_encodings: one row per analyzed barcode
Latents == [k \in 1..Len(analyzed_barcode_inds) |-> k - 1]

\* line 412: p[np.isnan(p)] = 0.
NanToZero(q) ==
    [k \in 1..Len(q) |->
        IF q[k].is_nan THEN [is_nan |-> FALSE, v |-> 0] ELSE q[k]]

\* CellMask with p >= 0.5
CellMask_AtLeastHalf(q) == [k \in 1..Len(q) |-> ~q[k].is_nan /\ q[k].v >= 5]

\* lines 414-415: p > 0.5, a boolean mask
CellMask(q) == [k \in 1..Len(q) |-> ~q[k].is_nan /\ q[k].v > 5]

\* FoundCells without the assertion
FoundCells_Unchecked(q) == TRUE

\* line 414: np.sum(p > 0.5) > 0
FoundCells(q) == \E k \in 1..Len(q) : CellMask(q)[k]

\* a[mask] for a boolean mask
BoolIndex(a, mask) == Masked(a, { k \in 1..Len(mask) : mask[k] })

\* a file that was never written
Unwritten ==
    [written |-> "no", barcodes |-> <<>>, rows |-> <<>>,
     cell_barcode_inds |-> <<>>, z |-> <<>>, d |-> <<>>, p |-> <<>>]

\* the arguments of a call of write_matrix_to_h5 that matter to its
\* assertions, for a csc matrix with the given rows
CallArgs(barcodes, rows) ==
    [is_csc |-> TRUE, gene_names_size |-> Shape1(data),
     barcodes_size |-> Len(barcodes), shape |-> <<Len(rows), Shape1(data)>>,
     given |-> {"z", "d", "p"}]

\* write_matrix_to_h5 called from save_to_output_file: the pairs of its
\* result and the file it leaves; it returns True with every array
\* written, or what its handler returns with the file not completed
WriteResults(barcodes, rows, cell_barcode_inds, z, d, q) ==
    LET arrays == [written |-> "complete", barcodes |-> barcodes,
                   rows |-> rows, cell_barcode_inds |-> cell_barcode_inds,
                   z |-> z, d |-> d, p |-> q]
    IN  IF ~Preconditions(CallArgs(barcodes, rows))
        THEN { <<"AssertionError", Unwritten>> }
        ELSE { <<"True", arrays>>,
               <<Handler.value, [Unwritten EXCEPT !.written = "incomplete"]>> }

\* save_to_output_file has not been called
SaveIdle ==
    /\ s_pc = "idle"
    /\ enc_p = <<>>
    /\ filtered_inds_of_analyzed_barcodes = <<>>
    /\ write_succeeded = "none"
    /\ output_file = Unwritten
    /\ filtered_output_file = Unwritten
    /\ cell_barcodes_csv = Unwritten
    /\ s_return = "none"

\* lines 373-409: save_to_output_file is called on a constructed Dataset
\* and reads the encodings from the inference model
SaveEncodings ==
    /\ pc = "done"
    /\ data # NoData
    /\ s_pc = "idle"
    /\ enc_p' \in Encodings
    /\ s_pc' = "encoded"
    /\ UNCHANGED <<filtered_inds_of_analyzed_barcodes, write_succeeded,
                   output_file, filtered_output_file, cell_barcodes_csv,
                   s_return, dvars, wvars>>

\* lines 411-423: the barcodes that have cells; "Found no cells." is raised
\* by the assertion of line 414
SaveFindCells ==
    /\ s_pc = "encoded"
    /\ IF enc_p # <<>>
       THEN LET q == NanToZero(enc_p[1])
            IN  /\ enc_p' = <<q>>
                /\ IF FoundCells(q)
                   THEN /\ filtered_inds_of_analyzed_barcodes' = CellMask(q)
                        /\ s_pc' = "cells"
                        /\ UNCHANGED s_return
                   ELSE /\ s_pc' = "raised"
                        /\ s_return' = "AssertionError"
                        /\ UNCHANGED filtered_inds_of_analyzed_barcodes
       ELSE /\ filtered_inds_of_analyzed_barcodes' = Arange(0, Len(Latents))
            /\ s_pc' = "cells"
            /\ UNCHANGED <<enc_p, s_return>>
    /\ UNCHANGED <<write_succeeded, output_file, filtered_output_file,
                   cell_barcodes_csv, dvars, wvars>>

\* lines 425-436: the full result, all barcodes
SaveWriteFull ==
    /\ s_pc = "cells"
    /\ \E r \in WriteResults(Arange(0, Shape0(data)), Arange(0, Shape0(data)),
                              analyzed_barcode_inds, Latents, Latents,
                              IF enc_p = <<>> THEN <<>> ELSE enc_p[1]) :
          IF r[1] = "AssertionError"
          THEN /\ s_pc' = "raised"
               /\ s_return' = r[1]
               /\ UNCHANGED <<write_succeeded, output_file>>
          ELSE /\ write_succeeded' = r[1]
               /\ output_file' = r[2]
               /\ s_pc' = IF model_name # "simple" THEN "full" ELSE "written"
               /\ UNCHANGED s_return
    /\ UNCHANGED <<enc_p, filtered_inds_of_analyzed_barcodes,
                   filtered_output_file, cell_barcodes_csv, dvars, wvars>>

\* lines 444-463: the filtered result, the barcodes with cells; what the
\* call returns is not assigned
SaveWriteFiltered ==
    /\ s_pc = "full"
    /\ LET cell_barcode_inds ==
              BoolIndex(analyzed_barcode_inds,
                        filtered_inds_of_analyzed_barcodes)
           cell_barcodes ==
              FancyIndex(Arange(0, Shape0(data)), cell_barcode_inds)
       IN  \E r \in WriteResults(
                       cell_barcodes,
                       FancyIndex(Arange(0, Shape0(data)), cell_barcode_inds),
                       <<>>,
                       BoolIndex(Latents, filtered_inds_of_analyzed_barcodes),
                       BoolIndex(Latents, filtered_inds_of_analyzed_barcodes),
                       BoolIndex(enc_p[1],
                                 filtered_inds_of_analyzed_barcodes)) :
              IF r[1] = "AssertionError"
              THEN /\ s_pc' = "raised"
                   /\ s_return' = r[1]
                   /\ UNCHANGED filtered_output_file
              ELSE /\ filtered_output_file' = r[2]
                   /\ s_pc' = "filtered"
                   /\ UNCHANGED s_return
    /\ UNCHANGED <<enc_p, filtered_inds_of_analyzed_barcodes, write_succeeded,
                   output_file, cell_barcodes_csv, dvars, wvars>>

\* lines 465-469: np.savetxt of the barcodes with cells; an exception it
\* raises leaves save_to_output_file
SaveCellBarcodes ==
    /\ s_pc = "filtered"
    /\ LET cell_barcodes ==
              FancyIndex(Arange(0, Shape0(data)),
                         BoolIndex(analyzed_barcode_inds,
                                   filtered_inds_of_analyzed_barcodes))
       IN  \/ /\ cell_barcodes_csv' =
                    [Unwritten EXCEPT !.written = "complete",
                                      !.barcodes = cell_barcodes]
              /\ s_pc' = "written"
              /\ UNCHANGED s_return
           \/ /\ cell_barcodes_csv' = [Unwritten EXCEPT !.written = "incomplete"]
              /\ s_pc' = "raised"
              /\ s_return' = "OSError"
    /\ UNCHANGED <<enc_p, filtered_inds_of_analyzed_barcodes, write_succeeded,
                   output_file, filtered_output_file, dvars, wvars>>

\* lines 471-526: the plots, whose exceptions are caught, and the return
SaveReturn ==
    /\ s_pc = "written"
    /\ s_return' = write_succeeded
    /\ s_pc' = "returned"
    /\ UNCHANGED <<enc_p, filtered_inds_of_analyzed_barcodes, write_succeeded,
                   output_file, filtered_output_file, cell_barcodes_csv,
                   dvars, wvars>>

----------------------------------------------------------------------------
(* Specifications.                                                         *)

\* the empty Dataset() that owns no data, for the runs of the writer alone
NoDataset ==
    /\ input_file = NoData
    /\ model_name = "full"
    /\ expected_cell_count = NoneInt
    /\ low_count_threshold = DefaultLowCountThreshold
    /\ fraction_empties = <<1, 2>>
    /\ InitFields

Init == InitDataset /\ WriterIdle /\ SaveIdle

Next ==
    \/ LoadData
    \/ EstimateNCells
    \/ TrimGenes
    \/ TrimRoughPriors
    \/ TrimBarcodes
    \/ EstimatePriors

Spec == Init /\ [][Next]_vars

InitWrite == NoDataset /\ WriteCall /\ SaveIdle

SpecWrite == InitWrite /\ [][NextWrite]_vars

\* number of barcodes of the large matrices given to the cell-count estimate
BigBarcodes == 100

\* the totals that occur in a large matrix
BigTotals == {0, 9, 10, 20}

\* a matrix of BigBarcodes barcodes that is not sorted by total: barcode 2
\* has total a, barcode 5 total b, every third barcode total c, the rest d
BigMatrix(a, b, c, d) ==
    [k \in 1..BigBarcodes |->
        IF k = 3 THEN <<a, 0>>
        ELSE IF k = 6 THEN <<0, b>>
        ELSE IF k % 3 = 0 THEN <<c, 0>>
        ELSE <<d, 0>>]

BigMatrices == { BigMatrix(a, b, c, d) : a, b, c, d \in BigTotals }

\* Dataset(...) without expected_cell_count, on a large or a small matrix
InitEstimate ==
    /\ input_file \in BigMatrices \cup Matrices
    /\ model_name \in ModelNames
    /\ expected_cell_count = NoneInt
    /\ low_count_threshold = DefaultLowCountThreshold
    /\ fraction_empties = <<1, 2>>
    /\ InitFields
    /\ WriterIdle
    /\ SaveIdle

\* lines 76-87: the constructor up to the cell-count estimate
NextEstimate ==
    \/ LoadData
    \/ EstimateNCells

SpecEstimate == InitEstimate /\ [][NextEstimate]_vars

\* the matrices of the runs that end in save_to_output_file
SaveMatrices ==
    { << <<16, 1>>, <<3, 0>>, <<0, 1>> >>,
      << <<3, 0>>, <<16, 1>>, <<16, 1>> >> }

\* Dataset(...) of a run that goes on to save_to_output_file
InitSave ==
    /\ input_file \in SaveMatrices
    /\ model_name \in ModelNames
    /\ expected_cell_count \in {Some(1), Some(2)}
    /\ low_count_threshold = 0
    /\ fraction_empties = <<1, 2>>
    /\ InitFields
    /\ WriterIdle
    /\ SaveIdle

\* the constructor, then save_to_output_file on the constructed Dataset
NextSave ==
    \/ LoadData
    \/ EstimateNCells
    \/ TrimGenes
    \/ TrimRoughPriors
    \/ TrimBarcodes
    \/ EstimatePriors
    \/ SaveEncodings
    \/ SaveFindCells
    \/ SaveWriteFull
    \/ SaveWriteFiltered
    \/ SaveCellBarcodes
    \/ SaveReturn

SpecSave == InitSave /\ [][NextSave]_vars

----------------------------------------------------------------------------
(* Properties of the constructor.                                          *)

\* the trimming has finished on a loaded matrix
Trimmed == is_trimmed /\ data # NoData

\* gene selection has run on a loaded matrix
GenesSelected ==
    data # NoData /\ pc \in {"genes", "rough", "trimmed", "done", "failed"}

\* the number of barcodes with a nonzero raw total
NumNonzero == Cardinality({ b \in 1..Shape0(data) : SumSeq(data[b]) > 0 })

\* the raw total of barcode index b (0-based)
Total(b) == SumSeq(data[b + 1])

\* ranked barcodes at the 0-based rank positions [from, to)
Ranked(from, to) == SubSeq(umi_count_order, from + 1, to)

\* C5-C7: the quantities the claims name, for a model with empty droplets
ClaimCutoff == Max(low_count_threshold, (8 * priors["empty_counts"]) \div 10)
ClaimM == Cardinality({ b \in 0..(Shape0(data) - 1) : Total(b) > ClaimCutoff })
ClaimN == Min(priors["n_cells"], NumNonzero)
ClaimTransitionCount == Max(0, Min(num_transition_barcodes, ClaimM - ClaimN))

\* C1: once _trim_dataset_for_analysis has finished, analyzed_barcode_inds
\* and empty_barcode_inds share no barcode index.
C1_Disjoint ==
    Trimmed =>
        Range(analyzed_barcode_inds) \cap Range(empty_barcode_inds) = {}

C1_Witness ==
    /\ Trimmed
    /\ model_name = "full"
    /\ Len(analyzed_barcode_inds) >= 2
    /\ empty_barcode_inds # <<>>

\* C2: after gene selection analyzed_gene_inds is strictly ascending, holds
\* no blacklisted gene and no gene whose column sum is zero, and holds every
\* other gene index.
C2_GeneSelection ==
    GenesSelected =>
        /\ \A i \in 1..(Len(analyzed_gene_inds) - 1) :
              analyzed_gene_inds[i] < analyzed_gene_inds[i + 1]
        /\ Range(analyzed_gene_inds) =
              { g \in 0..(Shape1(data) - 1) :
                  /\ g \notin gene_blacklist
                  /\ \E b \in 1..Shape0(data) : data[b][g + 1] > 0 }

C2_Witness ==
    /\ pc = "genes"
    /\ gene_blacklist = {0}
    /\ analyzed_gene_inds = <<1>>
    /\ \E b \in 1..Shape0(data) : data[b][1] > 0

\* C3: for the simple model a constructed Dataset has no empty barcodes and
\* an empty_counts prior of 0.
C3_SimpleNoEmpties ==
    (model_name = "simple" /\ pc = "done" /\ data # NoData) =>
        /\ empty_barcode_inds = <<>>
        /\ priors["empty_counts"] = 0

C3_Witness ==
    /\ model_name = "simple"
    /\ pc = "done"
    /\ data # NoData
    /\ NumNonzero >= 2
    /\ Len(analyzed_barcode_inds) >= 2

\* C4: for the simple model analyzed_barcode_inds is the first
\* min(n_cells prior, number of nonzero barcodes) barcodes of the ranking, in
\* rank order; so no more barcodes are analyzed than have a nonzero total,
\* and no zero-total barcode is analyzed.
C4_SimpleTopCells ==
    (model_name = "simple" /\ Trimmed) =>
        /\ analyzed_barcode_inds = Ranked(0, Min(priors["n_cells"], NumNonzero))
        /\ Len(analyzed_barcode_inds) <= NumNonzero
        /\ \A i \in 1..Len(analyzed_barcode_inds) :
              Total(analyzed_barcode_inds[i]) > 0

C4_Witness ==
    /\ model_name = "simple"
    /\ Trimmed
    /\ priors["n_cells"] > NumNonzero
    /\ NumNonzero >= 1
    /\ NumNonzero < Shape0(data)

\* C5: for a model with empty droplets analyzed_barcode_inds is the ranked
\* barcodes at rank positions [0, n + transitionCount), where cutoff =
\* max(low_count_threshold, floor(0.8 * empty_counts)), M = the number of
\* barcodes whose raw total exceeds cutoff, n = n_cells clamped to the
\* nonzero barcodes and transitionCount = max(0, min(num_transition_barcodes,
\* M - n)); and for raw totals [1000, 900, 50, 40, 5], threshold 30, 2
\* expected cells and 1 transition barcode the result is [0, 1, 2].
C5_AnalyzedBarcodes ==
    (model_name # "simple" /\ Trimmed) =>
        /\ analyzed_barcode_inds = Ranked(0, ClaimN + ClaimTransitionCount)
        /\ ( /\ data = ScenarioMatrix
             /\ low_count_threshold = 30
             /\ priors["n_cells"] = 2
             /\ num_transition_barcodes = 1 )
           => analyzed_barcode_inds = <<0, 1, 2>>

C5_Witness ==
    /\ model_name # "simple"
    /\ Trimmed
    /\ data = ScenarioMatrix
    /\ priors["n_cells"] = 2
    /\ num_transition_barcodes = 1
    /\ ClaimM = 4
    /\ ClaimTransitionCount = 1

\* C6: for a model with empty droplets, empty_barcode_inds is empty when
\* transitionCount < num_transition_barcodes and otherwise is the ranked
\* barcodes at rank positions [n + transitionCount, M); no barcode ranked at
\* position M or later (raw total not above the cutoff) is ever in it.
C6_EmptyBarcodes ==
    (model_name # "simple" /\ Trimmed) =>
        /\ empty_barcode_inds =
              IF ClaimTransitionCount < num_transition_barcodes THEN <<>>
              ELSE Ranked(ClaimN + ClaimTransitionCount, ClaimM)
        /\ \A i \in 1..Len(empty_barcode_inds) :
              Total(empty_barcode_inds[i]) > ClaimCutoff

C6_Witness ==
    /\ model_name # "simple"
    /\ Trimmed
    /\ Len(empty_barcode_inds) >= 1
    /\ ClaimTransitionCount >= 1
    /\ ClaimM < Shape0(data)
    /\ NumNonzero > ClaimM

\* C7: for a model with empty droplets, no barcode whose raw total is below
\* low_count_threshold is in analyzed_barcode_inds or empty_barcode_inds.
C7_BelowThresholdExcluded ==
    (model_name # "simple" /\ Trimmed) =>
        \A b \in Range(analyzed_barcode_inds) \cup Range(empty_barcode_inds) :
            Total(b) >= low_count_threshold

\* C8: for a model with empty droplets, cell_prob is (1 - fraction_empties)
\* * (n_cells / number of analyzed barcodes); a constructed Dataset holds a
\* cell_prob in (0, 1], and a failed construction has populated none of
\* cell_logit, chi_ambient and chi_bar.
C8_CellProb ==
    (model_name # "simple" /\ data # NoData) =>
        /\ "cell_prob" \in DOMAIN priors =>
              /\ priors["cell_prob"][2] > 0
              /\ priors["cell_prob"][1]
                    * (fraction_empties[2] * Len(analyzed_barcode_inds))
                 = priors["cell_prob"][2]
                    * ((fraction_empties[2] - fraction_empties[1])
                          * priors["n_cells"])
        /\ pc = "done" =>
              /\ "cell_prob" \in DOMAIN priors
              /\ 0 < priors["cell_prob"][1]
              /\ priors["cell_prob"][1] <= priors["cell_prob"][2]
        /\ pc = "failed" =>
              {"cell_logit", "chi_ambient", "chi_bar"} \cap DOMAIN priors = {}

C8_Witness ==
    /\ model_name # "simple"
    /\ pc = "failed"
    /\ fault = "AssertionError"
    /\ "cell_prob" \in DOMAIN priors
    /\ priors["cell_prob"][1] > priors["cell_prob"][2]

\* C9 as stated: the ranking is descending by total, and of two barcodes
\* with equal totals the one with the smaller index is ranked first.
C9_StableRanking ==
    GenesSelected =>
        \A p, q \in 1..Len(umi_count_order) :
            p < q =>
                \/ Total(umi_count_order[p]) > Total(umi_count_order[q])
                \/ /\ Total(umi_count_order[p]) = Total(umi_count_order[q])
                   /\ umi_count_order[p] < umi_count_order[q]

\* C9 as amended: the ranking holds every barcode index exactly once, in
\* non-increasing order of total row count.
C9_DescendingRanking ==
    GenesSelected =>
        /\ Len(umi_count_order) = Shape0(data)
        /\ Range(umi_count_order) = 0..(Shape0(data) - 1)
        /\ \A p, q \in 1..Len(umi_count_order) :
              p < q => Total(umi_count_order[p]) >= Total(umi_count_order[q])

C9_Witness ==
    /\ GenesSelected
    /\ \E p, q \in 1..Len(umi_count_order) :
          /\ p < q
          /\ Total(umi_count_order[p]) = Total(umi_count_order[q])
          /\ Total(umi_count_order[p]) > 0
    /\ \E p, q \in 1..Len(umi_count_order) :
          Total(umi_count_order[p]) > Total(umi_count_order[q])

----------------------------------------------------------------------------
(* Properties of write_matrix_to_h5.                                       *)

\* the arrays a call has to write: the eight fixed nodes and one array per
\* optional argument that is given
RequiredNodes ==
    {"background_removed", "gene_names", "genes", "barcodes", "data",
     "indices", "indptr", "shape"}
    \cup { OptionalArgs[i][2] : i \in { j \in 1..Len(OptionalArgs) :
                                          OptionalArgs[j][1] \in w_args.given } }

\* C10: once its preconditions hold, write_matrix_to_h5 propagates no
\* exception raised while opening or writing the file: it returns False
\* then; it returns True only when every array was written and the file
\* was closed.
C10_WriteFaultsReturnFalse ==
    /\ (Preconditions(w_args) /\ w_pc \notin {"call", "try", "with"}) =>
          /\ w_pc = "returned"
          /\ w_return \in {"True", "False"}
    /\ (w_caught /\ Preconditions(w_args)) =>
          /\ w_pc = "returned"
          /\ w_return = "False"
    /\ w_return = "True" =>
          /\ ~w_caught
          /\ Range(w_file.nodes) = RequiredNodes
          /\ w_file.exists
          /\ ~w_file.is_open

C10_Witness ==
    /\ w_caught
    /\ w_pc = "returned"
    /\ w_return = "False"
    /\ Len(w_file.nodes) >= 9
    /\ Range(w_file.nodes) # RequiredNodes

\* the three conditions under which a call may not touch the destination:
\* the matrix is not csc, or the number of gene names differs from the gene
\* dimension, or the number of barcodes differs from the barcode dimension
\* (rows of the matrix as passed, before the transpose of line 656)
PreconditionViolated ==
    \/ ~w_args.is_csc
    \/ w_args.gene_names_size # w_args.shape[2]
    \/ w_args.barcodes_size # w_args.shape[1]

\* C11: write_matrix_to_h5 checks its preconditions before it touches the
\* file system: when the matrix is not csc, or the gene-name count differs
\* from the gene dimension, or the barcode count differs from the barcode
\* dimension, the call raises an AssertionError, and the destination file
\* is neither created nor modified at any step of the call.
C11_PreconditionsBeforeFile ==
    /\ [](PreconditionViolated =>
            /\ w_pc \in {"call", "raised"}
            /\ w_pc = "raised" => w_return = "AssertionError"
            /\ ~w_caught
            /\ w_file \in {NoFile, OldFile})
    /\ [][PreconditionViolated =>
            /\ w_file' = w_file
            /\ w_pc = "call" => w_pc' = "raised"]_vars

C11_Witness ==
    /\ w_args.is_csc
    /\ w_args.gene_names_size = w_args.shape[2]
    /\ w_args.barcodes_size # w_args.shape[1]
    /\ w_pc = "raised"
    /\ w_return = "AssertionError"
    /\ w_file = OldFile

----------------------------------------------------------------------------
(* Properties of estimate_cell_count_from_dataset.                         *)

\* row total of barcode b (1-based) of the loaded matrix
RawTotal(b) == SumSeq(data[b])

\* the totals v that stand at 0-based rank r of a descending ranking of the
\* barcodes: at most r barcodes are larger, more than r are at least v
TotalsAtRank(r) ==
    { v \in { RawTotal(b) : b \in 1..Shape0(data) } :
        /\ Cardinality({ b \in 1..Shape0(data) : RawTotal(b) > v }) <= r
        /\ Cardinality({ b \in 1..Shape0(data) : RawTotal(b) >= v }) > r }

\* the constructor has estimated the cell count from the data
CellCountEstimated ==
    /\ data # NoData
    /\ expected_cell_count = NoneInt
    /\ pc = "n_cells"

\* C16: estimate_cell_count_from_dataset returns the number of barcodes for
\* the simple model; otherwise, with p the total at rank
\* floor(numBarcodes / 100) of the descending ranking, it returns the
\* number of barcodes whose total is above 0.9 * p (10 * total > 9 * p).
C16_CellCountEstimate ==
    CellCountEstimated =>
        IF model_name = "simple"
        THEN priors["n_cells"] = Shape0(data)
        ELSE \A p \in TotalsAtRank(Shape0(data) \div 100) :
                priors["n_cells"] =
                    Cardinality({ b \in 1..Shape0(data) :
                                    10 * RawTotal(b) > 9 * p })

C16_Witness ==
    /\ CellCountEstimated
    /\ model_name = "full"
    /\ Shape0(data) >= 100
    /\ TotalsAtRank(Shape0(data) \div 100) = {10}
    /\ \E b \in 1..Shape0(data) : RawTotal(b) = 20
    /\ priors["n_cells"] = 2

----------------------------------------------------------------------------
(* Properties of the prior passes and of the barcode partition.            *)

\* number of positions of the sequence s that hold barcode b
Occurrences(s, b) == Cardinality({ k \in 1..Len(s) : s[k] = b })

\* C17 as stated: for a model with empty droplets the rough prior pass
\* completes for every loaded matrix and yields integer cell_counts and
\* empty_counts; the constructor never aborts in this pass.
C17_RoughPassCompletes ==
    (model_name # "simple" /\ data # NoData
        /\ pc \notin {"start", "loaded", "n_cells", "genes"}) =>
        /\ fault # "ValueError"
        /\ {"cell_counts", "empty_counts"} \subseteq DOMAIN priors
        /\ priors["cell_counts"] \in Int
        /\ priors["empty_counts"] \in Int

\* C18: for a model with empty droplets, after trimming, every barcode whose
\* raw total is above the effective cutoff occurs exactly once in
\* analyzed_barcode_inds and empty_barcode_inds taken together, whatever
\* the prior cell count and the number of transition barcodes (zero,
\* negative or larger than the number of barcodes).
C18_AboveCutoffPartition ==
    (model_name # "simple" /\ Trimmed) =>
        \A b \in 0..(Shape0(data) - 1) :
            Total(b) > ClaimCutoff =>
                Occurrences(analyzed_barcode_inds, b)
                    + Occurrences(empty_barcode_inds, b) = 1

C18_Witness ==
    /\ model_name # "simple"
    /\ Trimmed
    /\ num_transition_barcodes < 0
    /\ ClaimM >= 2
    /\ Len(analyzed_barcode_inds) >= 1
    /\ Len(empty_barcode_inds) >= 1
    /\ Len(analyzed_barcode_inds) + Len(empty_barcode_inds) = ClaimM
    /\ \E b \in 0..(Shape0(data) - 1) : Total(b) <= ClaimCutoff

\* the assertions of lines 271-277 have been evaluated and have passed
CellProbCheckPassed ==
    /\ "cell_prob" \in DOMAIN priors
    /\ fault # "AssertionError"

\* C19: for a model with empty droplets, when 1 <= priors n_cells <= number
\* of barcodes with nonzero total and 0 <= fraction_empties < 1, at least
\* n_cells barcodes are analyzed and the assertions 0 < cell_prob <= 1
\* pass; the upper assertion fails only when priors n_cells is larger than
\* the number of analyzed barcodes.
C19_CellProbCheck ==
    (model_name # "simple" /\ Trimmed) =>
        /\ (/\ 1 <= priors["n_cells"]
            /\ priors["n_cells"] <= NumNonzero
            /\ 0 <= fraction_empties[1]
            /\ fraction_empties[1] < fraction_empties[2]) =>
              /\ Len(analyzed_barcode_inds) >= priors["n_cells"]
              /\ fault # "AssertionError"
              /\ pc \in {"done", "failed"} => CellProbCheckPassed
        /\ (/\ fault = "AssertionError"
            /\ priors["cell_prob"][1] > priors["cell_prob"][2]) =>
              priors["n_cells"] > Len(analyzed_barcode_inds)

C19_Witness ==
    /\ model_name # "simple"
    /\ Trimmed
    /\ priors["n_cells"] = 2
    /\ NumNonzero = 3
    /\ fraction_empties = <<1, 2>>
    /\ Len(analyzed_barcode_inds) = 3
    /\ pc = "done"
    /\ CellProbCheckPassed
    /\ priors["cell_prob"] = <<2, 6>>

\* C20 as stated: for a model with empty droplets, whenever the assertions
\* 0 < cell_prob <= 1 pass, the final prior pass ends without a fault with
\* cell_logit = ln(cell_prob / (1 - cell_prob)) defined, also for
\* cell_prob = 1.
C20_LogitDefined ==
    (/\ model_name # "simple"
     /\ data # NoData
     /\ "cell_prob" \in DOMAIN priors
     /\ 0 < priors["cell_prob"][1]
     /\ priors["cell_prob"][1] <= priors["cell_prob"][2]) =>
        /\ pc = "done"
        /\ fault = "none"
        /\ "cell_logit" \in DOMAIN priors
        /\ priors["cell_logit"][1] = priors["cell_prob"][1]
        /\ priors["cell_logit"][2]
              = priors["cell_prob"][2] - priors["cell_prob"][1]
        /\ priors["cell_logit"][2] > 0

----------------------------------------------------------------------------
(* Order of the stages of the constructor.                                 *)

\* the steps of the constructor in the order load, gene selection, rough
\* prior pass, barcode selection, final prior pass, as pairs of positions
\* (the given or estimated cell count is stored between load and gene
\* selection)
StageSteps ==
    { <<"start", "loaded">>, <<"start", "done">>, <<"loaded", "n_cells">>,
      <<"n_cells", "genes">>, <<"genes", "rough">>, <<"genes", "failed">>,
      <<"rough", "trimmed">>, <<"trimmed", "done">>, <<"trimmed", "failed">> }

\* the step about to be taken is estimate_cell_count_from_dataset
CellCountPassRuns == pc = "loaded" /\ expected_cell_count = NoneInt

\* the step about to be taken is a count-distribution prior pass: the rough
\* pass or the final pass
DistributionPassRuns == pc \in {"genes", "trimmed"}

\* the rough pass runs on the selected genes over all barcodes, before the
\* barcodes are selected; is_trimmed and log_counts_crossover are set
\* before the ambient profile
RoughAndFinalPass ==
    /\ pc = "genes" =>
          /\ ~is_trimmed
          /\ analyzed_barcode_inds = Arange(0, Shape0(data))
          /\ pc' = "rough" =>
                LET counts ==
                      [b \in 1..Shape0(data) |->
                          SumSeq([k \in 1..Len(analyzed_gene_inds) |->
                                     data[b][analyzed_gene_inds[k] + 1]])]
                IN  <<priors'["cell_counts"], priors'["empty_counts"]>> \in
                       IF model_name = "simple"
                       THEN SimplePriors(counts, priors["n_cells"])
                       ELSE FullPriors(counts, counts, low_count_threshold)
    /\ pc = "rough" => ~is_trimmed /\ is_trimmed'
    /\ "chi_ambient" \in DOMAIN priors' =>
          /\ is_trimmed
          /\ "log_counts_crossover" \in DOMAIN priors'

\* C15 as stated: the stages run in the fixed order, and gene selection
\* has completed before any prior-estimator pass runs, the cell-count
\* estimate included.
C15_GenesBeforeEveryPriorPass ==
    [][pc' # pc =>
         /\ <<pc, pc'>> \in StageSteps
         /\ (CellCountPassRuns \/ DistributionPassRuns) => GenesSelected
         /\ RoughAndFinalPass]_vars

\* C15: the stages run in the fixed order load, gene selection, rough prior
\* pass, barcode selection, final prior pass; gene selection has completed
\* before the rough and the final prior pass run, whereas the cell-count
\* estimate used when no expected cell count is given runs before gene
\* selection; the rough pass runs on the selected genes over all barcodes
\* before barcode selection; is_trimmed is true and log_counts_crossover
\* is set before the ambient profile is estimated.
C15_StageOrder ==
    [][pc' # pc =>
         /\ <<pc, pc'>> \in StageSteps
         /\ DistributionPassRuns => GenesSelected
         /\ CellCountPassRuns => ~GenesSelected /\ analyzed_gene_inds = <<>>
         /\ RoughAndFinalPass]_vars

C15_Witness ==
    /\ pc = "done"
    /\ model_name # "simple"
    /\ expected_cell_count = NoneInt
    /\ gene_blacklist # {}
    /\ is_trimmed
    /\ {"n_cells", "cell_counts", "log_counts_crossover", "chi_ambient"}
          \subseteq DOMAIN priors

----------------------------------------------------------------------------
(* Properties of save_to_output_file.                                      *)

\* the 1-based positions k of the analyzed barcodes whose probability is
\* above 0.5, with NaN counted as 0
CellPositions ==
    { k \in 1..Len(enc_p[1]) : ~enc_p[1][k].is_nan /\ enc_p[1][k].v > 5 }

\* the barcodes analyzed_barcode_inds[k] with p[k] > 0.5, in the order of k
CellBarcodes ==
    [i \in 1..Cardinality(CellPositions) |->
        analyzed_barcode_inds[AscSeq(CellPositions)[i]]]

\* C12: for a model with empty droplets, the filtered result written by
\* save_to_output_file has as rows exactly the barcodes
\* analyzed_barcode_inds[k] with p[k] > 0.5 (NaN counted as 0): its number
\* of rows and the lengths of its p, z and d all equal the number of
\* p > 0.5 entries of the full result, and the list of cell barcodes has
\* the same entries; for the simple model only the full result is written.
C12_FilteredResult ==
    /\ model_name = "simple" =>
          /\ filtered_output_file = Unwritten
          /\ cell_barcodes_csv = Unwritten
          /\ s_pc = "returned" => output_file.written # "no"
    /\ (model_name # "simple" /\ s_pc = "returned") =>
          filtered_output_file.written # "no"
    /\ (model_name # "simple" /\ filtered_output_file.written = "complete") =>
          /\ filtered_output_file.rows = CellBarcodes
          /\ filtered_output_file.barcodes = CellBarcodes
          /\ Len(filtered_output_file.rows) = Cardinality(CellPositions)
          /\ Len(filtered_output_file.p) = Cardinality(CellPositions)
          /\ Len(filtered_output_file.z) = Cardinality(CellPositions)
          /\ Len(filtered_output_file.d) = Cardinality(CellPositions)
          /\ \A i \in 1..Cardinality(CellPositions) :
                /\ filtered_output_file.z[i] = AscSeq(CellPositions)[i] - 1
                /\ filtered_output_file.d[i] = AscSeq(CellPositions)[i] - 1
                /\ filtered_output_file.p[i]
                      = enc_p[1][AscSeq(CellPositions)[i]]
          /\ output_file.written = "complete" =>
                Len(filtered_output_file.rows) =
                    Cardinality({ k \in 1..Len(output_file.p) :
                                    /\ ~output_file.p[k].is_nan
                                    /\ output_file.p[k].v > 5 })
    /\ (model_name # "simple" /\ cell_barcodes_csv.written = "complete") =>
          cell_barcodes_csv.barcodes = CellBarcodes

C12_Witness ==
    /\ model_name # "simple"
    /\ s_pc = "returned"
    /\ output_file.written = "complete"
    /\ filtered_output_file.written = "complete"
    /\ cell_barcodes_csv.written = "complete"
    /\ Len(output_file.p) = 3
    /\ \E k \in 1..3 : output_file.p[k].v = 5
    /\ Len(filtered_output_file.rows) = 2
    /\ filtered_output_file.z = <<0, 2>>

\* C13: when the inference result has cell probabilities p and no entry is
\* above 0.5 (NaN counted as 0), save_to_output_file raises, and none of
\* the full result, the filtered result and the barcode list is written.
C13_NoCellsIsFatal ==
    (enc_p # <<>> /\ s_pc \notin {"idle", "encoded"} /\ CellPositions = {}) =>
        /\ s_pc = "raised"
        /\ s_return = "AssertionError"
        /\ output_file = Unwritten
        /\ filtered_output_file = Unwritten
        /\ cell_barcodes_csv = Unwritten

C13_Witness ==
    /\ enc_p # <<>>
    /\ Len(enc_p[1]) >= 2
    /\ \E k \in 1..Len(enc_p[1]) : enc_p[1][k].v = 5
    /\ CellPositions = {}
    /\ s_pc = "raised"
    /\ s_return = "AssertionError"
    /\ output_file = Unwritten

\* C14 as stated: save_to_output_file returns True exactly when every file
\* it attempted was written successfully: the full result and, for a model
\* with empty droplets, the filtered result; a failed write of either
\* makes it return False.
C14_TrueMeansAllWritten ==
    s_pc = "returned" =>
        /\ s_return \in {"True", "False"}
        /\ s_return = "True" <=>
              /\ output_file.written = "complete"
              /\ model_name # "simple" =>
                    filtered_output_file.written = "complete"

====
